---- MODULE Spec2Model ----
(***************************************************************************)
(* Model of the ion channel simulation engine                              *)
(* (pyengine/src/ion_channel_engine/simulation.py and schemas.py).         *)
(*                                                                         *)
(* Reading of the source.  Neither simulation.py nor schemas.py compiles   *)
(* as it stands.  The model repairs the lines that are not Python, with    *)
(* the smallest lexical change that gives them a meaning, and keeps the    *)
(* control flow that the indentation states:                               *)
(*   - simulation.py line 43 `if flux.type == 'Step'"` is read as          *)
(*     `if flux.type == 'Step':` with line 44 as its body;                 *)
(*   - schemas.py line 101 is read at the indentation of line 99, and      *)
(*     line 139 `names.add{hv.name}` as `names.add(hv.name)`;              *)
(*   - the classes go by the names their users import (ChannelModel and    *)
(*     ChannelModelSchema are one class, StimulusProtocol and              *)
(*     StimulusProtocolSchema are one class).                              *)
(* Every line that is Python is modelled as written, with the exception    *)
(* it raises when it runs.  In particular line 33 reads the attribute      *)
(* `holding_mape`, which no Stimulus object has.                           *)
(*                                                                         *)
(* The class HoldingValue is used by simulation.py and defined nowhere.    *)
(* Its fields are those of the constructor calls of lines 148-149 and of   *)
(* the attribute reads of lines 37-39.  Whether the fields besides `name`  *)
(* are required is not in the source: both outcomes of                     *)
(* HoldingValue(name=...) (line 76) are kept, an object without value and  *)
(* a ValidationError.                                                      *)
(*                                                                         *)
(* Numbers.  Python floats are modelled as exact rationals <<n, d>> in     *)
(* lowest terms with d > 0; rounding is not modelled, and np.log is a      *)
(* table of values rounded to two decimals.                                *)
(***************************************************************************)
EXTENDS Integers, Sequences, FiniteSets, TLC

\* ------------------------------------------------------------------------
\* Exact rational arithmetic standing for float arithmetic
\* ------------------------------------------------------------------------
Abs(n) == IF n < 0 THEN -n ELSE n

RECURSIVE GCD(_, _)
GCD(a, b) == IF b = 0 THEN a ELSE GCD(b, a % b)

Rat(n, d) ==
    LET g == GCD(Abs(n), Abs(d))
        s == IF d < 0 THEN -1 ELSE 1
    IN  <<(s * n) \div g, (s * d) \div g>>

Num(n) == <<n, 1>>
Zero == Num(0)
One == Num(1)

RatAdd(a, b) == Rat(a[1] * b[2] + b[1] * a[2], a[2] * b[2])
RatNeg(a) == <<-a[1], a[2]>>
RatSub(a, b) == RatAdd(a, RatNeg(b))
\* cross-cancel before multiplying, so that intermediate products stay small
RatMul(a, b) ==
    LET x == Rat(a[1], b[2])
        y == Rat(b[1], a[2])
    IN  Rat(x[1] * y[1], x[2] * y[2])
RatDiv(a, b) == RatMul(a, Rat(b[2], b[1]))
RatLe(a, b) == a[1] * b[2] <= b[1] * a[2]
RatLt(a, b) == a[1] * b[2] < b[1] * a[2]
IsRat(x) == x \in Int \X (Nat \ {0})

\* What a call that should yield a float yields instead: Python's None, or
\* the exception that ended the call (no rational has d = 0)
None == <<0, 0>>
TypeError == <<2, 0>>
ZeroDivisionError == <<3, 0>>
AttributeError == <<4, 0>>
\* a sympy expression that is not a number (it has a free Symbol)
Expression == <<5, 0>>
\* the float64 values that are no rationals
PosInf == <<6, 0>>
NegInf == <<7, 0>>
NaN == <<8, 0>>
IsNum(x) == x[2] # 0

\* the name of the exception that x stands for ("" when x is a value)
Raised(x) ==
    CASE x = TypeError -> "TypeError"
      [] x = ZeroDivisionError -> "ZeroDivisionError"
      [] x = AttributeError -> "AttributeError"
      [] OTHER -> ""

\* numpy.float64 arithmetic (IEEE 754): the operands are rationals, PosInf,
\* NegInf or NaN; a division by zero yields an infinity or NaN, no exception
\* the sign of a value that is not NaN
Sign(x) ==
    IF x = PosInf THEN 1
    ELSE IF x = NegInf THEN -1
    ELSE IF x[1] > 0 THEN 1
    ELSE IF x[1] < 0 THEN -1
    ELSE 0
Inf(sign) == IF sign > 0 THEN PosInf ELSE IF sign < 0 THEN NegInf ELSE NaN
F64Neg(a) ==
    IF a = NaN THEN NaN ELSE IF IsNum(a) THEN RatNeg(a) ELSE Inf(-Sign(a))
F64Add(a, b) ==
    IF a = NaN \/ b = NaN THEN NaN
    ELSE IF IsNum(a) /\ IsNum(b) THEN RatAdd(a, b)
    ELSE IF IsNum(a) THEN b
    ELSE IF IsNum(b) THEN a
    ELSE IF a = b THEN a
    ELSE NaN
F64Sub(a, b) == IF b = NaN THEN NaN ELSE F64Add(a, F64Neg(b))
F64Mul(a, b) ==
    IF a = NaN \/ b = NaN THEN NaN
    ELSE IF IsNum(a) /\ IsNum(b) THEN RatMul(a, b)
    ELSE Inf(Sign(a) * Sign(b))
F64Div(a, b) ==
    IF a = NaN \/ b = NaN THEN NaN
    ELSE IF IsNum(a) /\ IsNum(b)
      THEN IF b = Zero THEN Inf(Sign(a)) ELSE RatDiv(a, b)
    ELSE IF IsNum(b) THEN Inf(Sign(a) * (IF Sign(b) < 0 THEN -1 ELSE 1))
    ELSE IF IsNum(a) THEN Zero
    ELSE NaN

\* ------------------------------------------------------------------------
\* Bounds of the checked instances
\* ------------------------------------------------------------------------
MaxEpochs == 2        \* flux steps declared on the voltage variable
MaxStart == 1         \* latest start time of a flux step (ms)
MaxDur == 2           \* longest duration of a flux step (ms)
MaxTime == 4          \* latest time asked of the stimulus (ms)
MaxStates == 2        \* states of a generated channel model
MaxTransitions == 2   \* transitions of a generated channel model
MaxSteps == 3         \* samples asked of a run
MaxCalls == 2         \* calls made on one engine
MaxHoldingValues == 3 \* holding values of generated protocol data

\* ------------------------------------------------------------------------
\* Data model (schemas.py)
\* ------------------------------------------------------------------------
FluxTypes == {"Step", "Ramp"}

FluxStep(type, value, time, deltaTime) ==
    [type |-> type, value |-> value, time |-> time, deltaTime |-> deltaTime]

\* py_type is the Python type of the object, which decides what `/` does
HoldingValue(name, value, fluxSteps) ==
    [py_type |-> "HoldingValue", name |-> name, value |-> value,
     fluxSteps |-> fluxSteps]

\* lines 135-140: the loop over the holding values from the k-th on; the
\* name at which ValueError is raised ("" when the loop ends)
RECURSIVE DuplicateLoop(_, _, _)
DuplicateLoop(values, k, names) ==
    IF k > Len(values) THEN ""
    ELSE LET hv == values[k]
         IN  IF hv.name \in names THEN hv.name
             ELSE DuplicateLoop(values, k + 1, names \cup {hv.name})

\* the validator of the field holding_values: the exception it raises (""
\* when it returns the values) and the name its message quotes
check_for_duplicate_names(values) ==
    LET name == DuplicateLoop(values, 1, {})
    IN  [raised |-> IF name = "" THEN "" ELSE "ValueError",
         message |-> IF name = "" THEN ""
                     ELSE "Duplicate holding value name found",
         name |-> name]

\* StimulusProtocol(protocol_id=..., holding_values=[...]) on a list of
\* holding values: the protocol object with the defaults of lines 130-131,
\* or the ValidationError in which pydantic wraps the ValueError of the
\* validator
StimulusProtocol(protocol_id, holding_values) ==
    LET checked == check_for_duplicate_names(holding_values)
    IN  IF checked.raised # ""
          THEN [raised |-> "ValidationError", message |-> checked.message,
                name |-> checked.name]
        ELSE [protocol_id |-> protocol_id, holding_values |-> holding_values,
              sweep_duration_ms |-> 1000, sweeps |-> 1]

\* A document of protocol data is a record of its keys; the value under
\* holding_values is a list or a dict, [py_type |-> "list" or "dict",
\* items |-> its content].
\* lines 128-129: the errors of the fields themselves.  protocol_id and
\* holding_values are required, and holding_values must be a list
\* ("Input should be a valid list").  Keys that are no fields of the class,
\* such as epochs, are ignored.
ProtocolFieldErrors(data) ==
    {[loc |-> f, type |-> "missing"] :
        f \in {"protocol_id", "holding_values"} \ DOMAIN data}
    \cup {[loc |-> f, type |-> "list_type"] :
             f \in {g \in {"holding_values"} \cap DOMAIN data :
                       data[g].py_type # "list"}}

\* StimulusProtocol(**data): the protocol object, or the ValidationError
\* that collects the errors of the fields and the message of
\* check_for_duplicate_names, which runs only on a holding_values that is a
\* list
protocol_validate(data) ==
    LET is_list == "holding_values" \in DOMAIN data
                      /\ data.holding_values.py_type = "list"
        checked == IF is_list
                     THEN check_for_duplicate_names(data.holding_values.items)
                   ELSE [raised |-> "", message |-> "", name |-> ""]
    IN  IF ProtocolFieldErrors(data) # {} \/ checked.raised # ""
          THEN [raised |-> "ValidationError",
                errors |-> ProtocolFieldErrors(data),
                message |-> checked.message, name |-> checked.name]
        ELSE StimulusProtocol(data.protocol_id, data.holding_values.items)

State(id, conductance) == [id |-> id, conductance |-> conductance]

RateFunction(id, equation) == [id |-> id, equation |-> equation]

Transition(from, to, rate_function_id, multiplier) ==
    [from_state |-> from, to_state |-> to,
     rate_function_id |-> rate_function_id, multiplier |-> multiplier]

ChannelModel(states, rate_functions, transitions) ==
    [states |-> states, rate_functions |-> rate_functions,
     transitions |-> transitions]

\* sequences over S of length at most n
SeqUpTo(S, n) == UNION {[1..k -> S] : k \in 0..n}

\* ------------------------------------------------------------------------
\* Validation of a channel model (schemas.py, class ChannelModel)
\*
\* Reading of the source.  Line 80 decorates check_model_completeness with
\* field_validator(mode='after') and names no field, and line 101 is indented
\* under a raise.  The model reads the method as what its signature and body
\* say it is, a validator of the whole model that runs after the fields have
\* validated, with line 101 at the indentation of line 99.
\* ------------------------------------------------------------------------
\* one message of the list `errors` (lines 69, 71, 73); i counts from 0
ErrorMessage(i, field, name, text) ==
    [transition |-> i, field |-> field, name |-> name, text |-> text]

\* lines 67-73: the loop over the transitions from the k-th on
RECURSIVE CheckLoop(_, _, _, _, _)
CheckLoop(transitions, k, defined_state_ids, defined_function_ids, errors) ==
    IF k > Len(transitions) THEN errors
    ELSE LET transition == transitions[k]
             e1 == IF transition.from_state \notin defined_state_ids
                     THEN <<ErrorMessage(k - 1, "from_state",
                                         transition.from_state,
                                         "is not a defined state id")>>
                   ELSE <<>>
             e2 == IF transition.to_state \notin defined_state_ids
                     THEN <<ErrorMessage(k - 1, "to_state",
                                         transition.to_state,
                                         "is not a defined state id")>>
                   ELSE <<>>
             e3 == IF transition.rate_function_id \notin defined_function_ids
                     THEN <<ErrorMessage(k - 1, "rate_function_id",
                                         transition.rate_function_id,
                                         "is not a defined function id")>>
                   ELSE <<>>
         IN  CheckLoop(transitions, k + 1, defined_state_ids,
                       defined_function_ids, errors \o e1 \o e2 \o e3)

\* lines 48-49, min_items=1: the fields that fail their own validation,
\* each with "List should have at least 1 item after validation, not 0"
TooShort(data) == {f \in {"states", "rate_functions"} : Len(data[f]) = 0}

\* lines 52-78: the messages with which the validator raises ValueError
\* (none: it returns the transitions).  info.data holds the fields that
\* validated before `transitions`; when states or rate_functions is not
\* among them the validator returns at line 61.
check_transition_states_exist(data) ==
    IF TooShort(data) # {} THEN <<>>
    ELSE CheckLoop(data.transitions, 1,
                   {data.states[i].id : i \in DOMAIN data.states},
                   {data.rate_functions[i].id :
                       i \in DOMAIN data.rate_functions},
                   <<>>)

\* lines 80-104: the exception the validator raises ("" when it returns the
\* model).  A Transition has no attribute source_state_id (line 89); without
\* transitions the first state has no incoming transition (line 99).
check_model_completeness(m) ==
    IF Len(m.states) = 0 THEN ""
    ELSE IF Len(m.transitions) > 0 THEN "AttributeError"
    ELSE "ValueError"

\* ChannelModel(**data): the exception raised ("" when the model is
\* accepted), the fields that are too short and the messages of
\* check_transition_states_exist.  pydantic collects the errors of the
\* fields and raises them as one ValidationError, without running the
\* validator of the whole model; it wraps a ValueError of that validator in
\* a ValidationError too and lets any other exception through.
model_validate(data) ==
    LET too_short == TooShort(data)
        errors == check_transition_states_exist(data)
        complete == check_model_completeness(data)
    IN  [op |-> "ChannelModel", data |-> data,
         raised |-> IF too_short # {} \/ errors # <<>> THEN "ValidationError"
                    ELSE IF complete = "ValueError" THEN "ValidationError"
                    ELSE complete,
         too_short |-> too_short,
         errors |-> errors]
\* ------------------------------------------------------------------------
\* Stimulus
\* ------------------------------------------------------------------------
\* Stimulus.__init__: holding_map = {hv.name: hv for hv in holding_values}
\* (a later record of the same name replaces an earlier one)
HoldingMap(protocol) ==
    LET hvs == protocol.holding_values
        names == {hvs[i].name : i \in DOMAIN hvs}
        last(n) == CHOOSE i \in DOMAIN hvs :
                      /\ hvs[i].name = n
                      /\ \A j \in DOMAIN hvs : hvs[j].name = n => j <= i
    IN  [n \in names |-> hvs[last(n)]]

\* Stimulus(protocol): the attributes of the new object, protocol and
\* holding_map and no other
Stimulus(protocol) ==
    [protocol |-> protocol, holding_map |-> HoldingMap(protocol)]

\* dict.get(key, default)
DictGet(d, key, default) == IF key \in DOMAIN d THEN d[key] ELSE default

\* start <= t_ms < end
FluxActive(flux, t_ms) ==
    LET start == flux.time
        end == RatAdd(start, flux.deltaTime)
    IN  RatLe(start, t_ms) /\ RatLt(t_ms, end)

\* lines 47-48: progress = (t_ms - start) / flux.deltaTime and
\* value + progress * (flux.value - value).  With deltaTime 0 the division
\* raises ZeroDivisionError when t_ms is a Python float and yields an
\* infinity or NaN when t_ms is a numpy.float64.
RampValue(flux, value, t_ms, t_type) ==
    IF flux.deltaTime = Zero /\ t_type = "float" THEN ZeroDivisionError
    ELSE LET progress == F64Div(RatSub(t_ms, flux.time), flux.deltaTime)
         IN  F64Add(value, F64Mul(progress, RatSub(flux.value, value)))

\* Stimulus.get_value_at_time: the value returned, None, or the exception
\* raised; t_type is the type of the argument t_ms ("float" or "float64").
\* Line 33 reads self.holding_mape; an object without that attribute raises
\* AttributeError there.  Past line 33, every path through the body of the
\* for loop ends in a return (the `elif` belongs to the interval test and
\* `return value` is the last statement of the body), so only the first
\* flux step is ever looked at; with no flux step the function falls off
\* its end and returns None.
get_value_at_time(stimulus, variable_name, t_ms, t_type) ==
    IF "holding_mape" \notin DOMAIN stimulus THEN AttributeError
    ELSE IF variable_name \notin DOMAIN stimulus.holding_mape THEN None
    ELSE
      LET holding_value == stimulus.holding_mape[variable_name]
          value == holding_value.value
          steps == holding_value.fluxSteps
      IN  IF Len(steps) = 0 THEN None
          ELSE
            LET flux == steps[1]
            IN  IF FluxActive(flux, t_ms)
                  THEN IF flux.type = "Step" THEN flux.value ELSE value
                ELSE IF flux.type = "Ramp"
                  THEN RampValue(flux, value, t_ms, t_type)
                ELSE value

\* ------------------------------------------------------------------------
\* Rate equations (SimulationEngine._prepare_rate_equations)
\* ------------------------------------------------------------------------
\* An equation string is modelled by its tokens: one atom, or atom op atom,
\* over the numerals 0-9, the operators + - * and the identifiers listed
\* below.  Division, powers, parentheses, function calls and every other
\* identifier are outside the equations of this model: ParseAtom has no
\* value on them.
Numerals == {"0", "1", "2", "3", "4", "5", "6", "7", "8", "9"}
NumeralValue(tok) ==
    CASE tok = "0" -> Num(0) [] tok = "1" -> Num(1)
      [] tok = "2" -> Num(2) [] tok = "3" -> Num(3)
      [] tok = "4" -> Num(4) [] tok = "5" -> Num(5)
      [] tok = "6" -> Num(6) [] tok = "7" -> Num(7)
      [] tok = "8" -> Num(8) [] tok = "9" -> Num(9)
Operators == {"+", "-", "*"}

\* the identifiers of the model's equations by what parse_expr resolves
\* them to.  local_dict (line 87) gives V, the Symbol, and exp, the function
\* class sympy.exp.  Of the names of sympy's namespace, the default
\* global_dict, the model has three numeric constants and some function
\* classes.  A name that neither dictionary knows becomes a fresh Symbol.
LocalFunctions == {"exp"}
SympyConstants == {"pi", "E", "EulerGamma"}
SympyFunctionClasses == {"sin", "cos", "tan", "log", "beta", "gamma", "zeta"}
FreeIdentifiers == {"k", "x", "e"}
\* numpy's value of a constant (pi, e, euler_gamma), to the precision of
\* 355/113, 193/71 and 228/395
ConstantValue(tok) ==
    CASE tok = "pi" -> Rat(355, 113)
      [] tok = "E" -> Rat(193, 71)
      [] tok = "EulerGamma" -> Rat(228, 395)

Node(kind, val, name, args) ==
    [kind |-> kind, val |-> val, name |-> name, args |-> args]

\* what one identifier or numeral evaluates to inside parse_expr
ParseAtom(tok) ==
    CASE tok \in Numerals -> Node("num", NumeralValue(tok), "", <<>>)
      [] tok = "V" -> Node("var", Zero, "V", <<>>)
      [] tok \in LocalFunctions \cup SympyFunctionClasses ->
            Node("func", Zero, tok, <<>>)
      [] tok \in SympyConstants -> Node("const", ConstantValue(tok), tok, <<>>)
      [] tok \in FreeIdentifiers -> Node("sym", Zero, tok, <<>>)

\* a op b on the values of a call: a product with the number 0 is the
\* number 0; any other operation on an expression with a free Symbol is
\* such an expression again
ApplyOp(op, a, b) ==
    IF op = "*" /\ (a = Zero \/ b = Zero) THEN Zero
    ELSE IF a = Expression \/ b = Expression THEN Expression
    ELSE CASE op = "+" -> RatAdd(a, b)
           [] op = "-" -> RatSub(a, b)
           [] op = "*" -> RatMul(a, b)

IsNumeral(node, val) == node.kind = "num" /\ node.val = val

\* the expression sympy builds of a op b, for operands that are numbers,
\* constants and Symbols: it evaluates on construction, so numbers are
\* folded, a product with 0 is 0, x - x is 0, and the neutral element of +
\* and * disappears
Canonical(op, a, b) ==
    IF a.kind = "num" /\ b.kind = "num"
      THEN Node("num", ApplyOp(op, a.val, b.val), "", <<>>)
    ELSE IF op = "*" /\ (IsNumeral(a, Zero) \/ IsNumeral(b, Zero))
      THEN Node("num", Zero, "", <<>>)
    ELSE IF op = "-" /\ a = b THEN Node("num", Zero, "", <<>>)
    ELSE IF op = "+" /\ IsNumeral(a, Zero) THEN b
    ELSE IF op \in {"+", "-"} /\ IsNumeral(b, Zero) THEN a
    ELSE IF op = "*" /\ IsNumeral(a, One) THEN b
    ELSE IF op = "*" /\ IsNumeral(b, One) THEN a
    ELSE Node("bin", Zero, op, <<a, b>>)

\* parse_expr(func.equation, local_dict=allowed_symbols): the expression, or
\* the exception raised at line 93.  The operators are not defined on a
\* function class: an operation with one as an operand is a TypeError.
parse_expr(equation) ==
    IF Len(equation) = 1 THEN ParseAtom(equation[1])
    ELSE IF ParseAtom(equation[1]).kind = "func"
              \/ ParseAtom(equation[3]).kind = "func"
      THEN [raised |-> "TypeError"]
    ELSE Canonical(equation[2], ParseAtom(equation[1]),
                   ParseAtom(equation[3]))

\* sympy.lambdify(V, parsed_expr, 'numpy'): a callable of V.  A function
\* class on its own is no expression: lambdify iterates over its `args`,
\* which on a class is a property object, a TypeError at line 94.
lambdify(parsed_expr) ==
    IF parsed_expr.kind = "func" THEN [raised |-> "TypeError"]
    ELSE [arg |-> "V", body |-> parsed_expr]

\* lines 93-94 for one rate function: the callable, or the exception raised
Compile(func) ==
    IF "raised" \in DOMAIN parse_expr(func.equation)
      THEN parse_expr(func.equation)
    ELSE lambdify(parse_expr(func.equation))

\* the value of an atom in a call.  lambdify binds every Symbol of the
\* expression in the namespace of the generated function, so a free Symbol
\* evaluates to itself, a sympy expression.
EvalAtom(node, V) ==
    CASE node.kind = "num" -> node.val
      [] node.kind = "const" -> node.val
      [] node.kind = "var" -> V
      [] node.kind = "sym" -> Expression

\* calling a compiled rate function: a number, or a sympy expression
CallRate(f, V) ==
    IF f.body.kind = "bin"
      THEN ApplyOp(f.body.name, EvalAtom(f.body.args[1], V),
                   EvalAtom(f.body.args[2], V))
    ELSE EvalAtom(f.body, V)

\* adding the entry id -> f to a dict
DictSet(d, id, f) ==
    [k \in DOMAIN d \cup {id} |-> IF k = id THEN f ELSE d[k]]

\* the loop without the test of line 92: a repeated id is compiled again
RECURSIVE PrepareLoopOverwrite(_, _, _)
PrepareLoopOverwrite(funcs, i, cache) ==
    IF i > Len(funcs) THEN [raised |-> "", cache |-> cache]
    ELSE IF "raised" \in DOMAIN Compile(funcs[i])
      THEN [raised |-> Compile(funcs[i]).raised, cache |-> cache]
    ELSE PrepareLoopOverwrite(funcs, i + 1,
             DictSet(cache, funcs[i].id, Compile(funcs[i])))

\* the loop of _prepare_rate_equations from the i-th rate function on: the
\* exception that ends it ("" when none) and self._rate_functions
RECURSIVE PrepareLoop(_, _, _)
PrepareLoop(funcs, i, cache) ==
    IF i > Len(funcs) THEN [raised |-> "", cache |-> cache]
    ELSE IF funcs[i].id \in DOMAIN cache
      THEN PrepareLoop(funcs, i + 1, cache)
    ELSE IF "raised" \in DOMAIN Compile(funcs[i])
      THEN [raised |-> Compile(funcs[i]).raised, cache |-> cache]
    ELSE PrepareLoop(funcs, i + 1,
             DictSet(cache, funcs[i].id, Compile(funcs[i])))

EmptyDict == [k \in {} |-> Zero]

prepare_rate_equations(m) == PrepareLoop(m.rate_functions, 1, EmptyDict)

\* ------------------------------------------------------------------------
\* SimulationEngine.__init__
\* ------------------------------------------------------------------------
\* {state.id: i for i, state in enumerate(model.states)}
StateMap(m) ==
    LET ids == {m.states[i].id : i \in DOMAIN m.states}
        last(id) == CHOOSE i \in DOMAIN m.states :
                       /\ m.states[i].id = id
                       /\ \A j \in DOMAIN m.states :
                             m.states[j].id = id => j <= i
    IN  [id \in ids |-> last(id) - 1]

Conductances(m) == [i \in DOMAIN m.states |-> m.states[i].conductance]

\* HoldingValue(name=name), the call of lines 76 and 77.  No class of that
\* name is defined: the call is given the fields it would need by lines
\* 148-149 (name, value, delta, units, type, fluxSteps), and whether the
\* class would require them is open.  Both outcomes are kept: an object
\* whose other fields hold nothing, and a ValidationError.
HoldingValueOfName(name, fields_required) ==
    IF fields_required THEN [raised |-> "ValidationError"]
    ELSE HoldingValue(name, None, <<>>)

\* holding_map.get(name, default): the record itself, not its value
VolumeAttr(hm, name, default) == DictGet(hm, name, default)

\* SimulationEngine(model, protocol): the attributes of the new engine, or
\* the exception that ends __init__.  The argument of line 76's get is
\* evaluated before the lookup, whether or not the protocol has the name;
\* line 79 compiles the rate equations last.
SimulationEngine(m, p, fields_required) ==
    LET default_internal ==
            HoldingValueOfName("volume_internal_L", fields_required)
        default_external ==
            HoldingValueOfName("volume_external_L", fields_required)
        prepared == prepare_rate_equations(m)
    IN  IF "raised" \in DOMAIN default_internal
          THEN [raised |-> default_internal.raised]
        ELSE IF prepared.raised # "" THEN [raised |-> prepared.raised]
        ELSE
          [model |-> m,
           protocol |-> p,
           stimulus |-> Stimulus(p),
           holding_map |-> Stimulus(p).holding_map,
           state_map |-> StateMap(m),
           num_states |-> Len(m.states),
           conductances |-> Conductances(m),
           volume_internal_L |->
               VolumeAttr(HoldingMap(p), "volume_internal_L",
                          default_internal),
           volume_external_L |->
               VolumeAttr(HoldingMap(p), "volume_external_L",
                          default_external),
           rate_functions |-> prepared.cache]

\* ------------------------------------------------------------------------
\* Engine state (the attributes set by SimulationEngine.__init__) and the
\* record of the most recent call: its arguments, locals and outcome
\* ------------------------------------------------------------------------
\* self: the engine, a record of its attributes (NoEngine where none has
\* been constructed); call: the last call made; ncalls: how many calls have
\* been made on the engine
VARIABLES self, call, ncalls

vars == <<self, call, ncalls>>

NoEngine == [py_type |-> "NoneType"]

\* an engine exists
Constructed == "model" \in DOMAIN self

\* engine = SimulationEngine(model, protocol), on a model and a protocol
\* object
NewEngine(m, p, fields_required) ==
    \E e \in {SimulationEngine(m, p, fields_required)} :
        /\ self = IF "raised" \in DOMAIN e THEN NoEngine ELSE e
        /\ call = [op |-> "__init__",
                   raised |-> IF "raised" \in DOMAIN e THEN e.raised ELSE ""]
        /\ ncalls = 0

\* Physical constants
F == 96485
z == 1
\* (R * T) / (z * F) * 1000 with R = 8.314, T = 293.15: 25.2604 mV, kept to
\* two decimals
NernstCoeff == Rat(2526, 100)

\* np.log on the ratios of the concentrations used here: 100 * ln(n), rounded
Ln100(n) ==
    CASE n = 1 -> 0 [] n = 2 -> 69 [] n = 4 -> 139 [] n = 5 -> 161
      [] n = 14 -> 264 [] n = 15 -> 271 [] n = 28 -> 333 [] n = 30 -> 340
      [] n = 35 -> 356 [] n = 75 -> 432
Log(q) == Rat(Ln100(q[1]) - Ln100(q[2]), 100)

\* lines 120-123
NernstPotential(internal_K_mM, external_K_mM) ==
    IF RatLe(internal_K_mM, Zero) \/ RatLe(external_K_mM, Zero) THEN Zero
    ELSE RatMul(NernstCoeff, Log(RatDiv(external_K_mM, internal_K_mM)))

\* lines 174-176: the mask of the samples with both concentrations positive,
\* zeros elsewhere, the formula on the masked samples
NernstPotentialTrace(internal_K_trace, external_K_trace) ==
    LET valid_concs ==
            [k \in DOMAIN internal_K_trace |->
                RatLt(Zero, internal_K_trace[k])
                    /\ RatLt(Zero, external_K_trace[k])]
    IN  [k \in DOMAIN internal_K_trace |->
            IF valid_concs[k]
              THEN RatMul(NernstCoeff,
                          Log(RatDiv(external_K_trace[k],
                                     internal_K_trace[k])))
            ELSE Zero]

\* np.zeros((n, n)), indexed [row, column] from 0
ZeroMatrix(n) == [ij \in (0..(n - 1)) \X (0..(n - 1)) |-> Zero]

\* Q[to_idx, from_idx] += rate; Q[from_idx, from_idx] -= rate
AddTransition(Q, from_idx, to_idx, rate) ==
    LET Q1 == [Q EXCEPT ![<<to_idx, from_idx>>] = RatAdd(@, rate)]
    IN  [Q1 EXCEPT ![<<from_idx, from_idx>>] = RatSub(@, rate)]

\* the loop over self.model.transitions from the k-th transition on.  Line
\* 115 multiplies what the rate function returns by the multiplier; line
\* 116 stores into a float array, a TypeError when the rate is a sympy
\* expression and no number (Q is as the earlier transitions left it).
RECURSIVE BuildQ(_, _, _, _, _)
BuildQ(e, transitions, k, Q, V) ==
    IF k > Len(transitions) THEN [Q |-> Q, raised |-> ""]
    ELSE LET trans == transitions[k]
             from_idx == e.state_map[trans.from_state]
             to_idx == e.state_map[trans.to_state]
             rate == ApplyOp("*", CallRate(e.rate_functions[
                                               trans.rate_function_id], V),
                             trans.multiplier)
         IN  IF rate = Expression THEN [Q |-> Q, raised |-> "TypeError"]
             ELSE BuildQ(e, transitions, k + 1,
                         AddTransition(Q, from_idx, to_idx, rate), V)

RECURSIVE SumTo(_, _)
SumTo(f, n) == IF n < 0 THEN Zero ELSE RatAdd(f[n], SumTo(f, n - 1))

\* Q @ probabilities (probabilities is a sequence, state index i at i + 1)
MatVec(Q, probabilities, n) ==
    [i \in 1..n |->
        SumTo([j \in 0..(n - 1) |->
                  RatMul(Q[<<i - 1, j>>], probabilities[j + 1])], n - 1)]

\* self.conductances @ probabilities
Dot(a, b, n) == SumTo([j \in 0..(n - 1) |-> RatMul(a[j + 1], b[j + 1])], n - 1)

\* x / d in Python: defined when d is a number, a TypeError when d is a
\* HoldingValue object
TrueDiv(x, d) ==
    IF d.py_type = "float" THEN RatDiv(x, d.value) ELSE TypeError

\* what a call of _ode_system records when line 102 raises: no local past
\* t_ms exists
OdeRaised(t_s, y, raised) ==
    [op |-> "_ode_system", t_s |-> t_s, y |-> y, raised |-> raised,
     dydt |-> <<>>]

\* what a call records when the loop of lines 113-117 raises: the locals
\* up to Q, none of those assigned after the loop
OdeRaisedInLoop(t_s, y, V, Q, raised) ==
    [op |-> "_ode_system", t_s |-> t_s, y |-> y, V |-> V, Q |-> Q,
     raised |-> raised, dydt |-> <<>>]

\* lines 118-135, reached with the matrix Q that the loop has built: the
\* locals of the call, the exception it raises ("" when none) and the
\* derivative it returns.  flux_mmol_s, d_internal_K_dt and d_external_K_dt
\* are in units of 1e-12.
OdeAfterLoop(e, t_s, y, V, Q) ==
    LET probabilities == SubSeq(y, 1, e.num_states)
        internal_K_mM == y[e.num_states + 1]
        external_K_mM == y[e.num_states + 2]
        d_probabilities_dt == MatVec(Q, probabilities, e.num_states)
        nernst_potential == NernstPotential(internal_K_mM, external_K_mM)
        total_conductance == Dot(e.conductances, probabilities, e.num_states)
        total_current_pA == RatMul(total_conductance,
                                   RatSub(V, nernst_potential))
        flux_mmol_s == RatMul(RatDiv(total_current_pA, Num(z * F)), Num(1000))
        d_internal_K_dt == TrueDiv(RatNeg(flux_mmol_s), e.volume_internal_L)
        d_external_K_dt == TrueDiv(flux_mmol_s, e.volume_external_L)
        raised == IF ~IsNum(d_internal_K_dt) \/ ~IsNum(d_external_K_dt)
                    THEN "TypeError"
                  ELSE ""
    IN  [op |-> "_ode_system", t_s |-> t_s, y |-> y, V |-> V, Q |-> Q,
         d_probabilities_dt |-> d_probabilities_dt,
         nernst_potential |-> nernst_potential,
         total_conductance |-> total_conductance,
         total_current_pA |-> total_current_pA,
         flux_mmol_s |-> flux_mmol_s,
         raised |-> raised,
         dydt |-> IF raised # "" THEN <<>>
                  ELSE d_probabilities_dt
                         \o <<d_internal_K_dt, d_external_K_dt>>]

\* lines 103-135, reached with the voltage V0 that line 102 returned
OdeBody(e, t_s, y, V0) ==
    LET V == IF V0 = None THEN Zero ELSE V0
        built == BuildQ(e, e.model.transitions, 1,
                        ZeroMatrix(e.num_states), V)
    IN  IF built.raised # ""
          THEN OdeRaisedInLoop(t_s, y, V, built.Q, built.raised)
        ELSE OdeAfterLoop(e, t_s, y, V, built.Q)

\* SimulationEngine._ode_system(t_s, y), t_s a Python float.  Line 102 asks
\* the stimulus for the variable 'Voltage'; an exception of that call ends
\* this one.
ode_system(e, t_s, y) ==
    LET t_ms == RatMul(t_s, Num(1000))
        V0 == get_value_at_time(e.stimulus, "Voltage", t_ms, "float")
    IN  IF Raised(V0) # "" THEN OdeRaised(t_s, y, Raised(V0))
        ELSE OdeBody(e, t_s, y, V0)

\* ------------------------------------------------------------------------
\* SimulationEngine.run
\* ------------------------------------------------------------------------
\* np.linspace(0, t_end, steps)
Linspace(t_end, steps) ==
    [k \in 1..steps |->
        IF steps = 1 THEN Zero ELSE RatMul(t_end, Rat(k - 1, steps - 1))]

\* solve_ivp(fun=self._ode_system, t_span, y0, t_eval, method='RK45', ...):
\* the outcomes of the call.  The integrator first evaluates the right-hand
\* side at (t_span[0], y0), and an exception of the right-hand side ends
\* solve_ivp.  The trajectory that RK45 computes when that evaluation
\* returns is outside this model: solve_ivp has no value there.
solve_ivp(e, t_span, y0, t_eval) ==
    CASE ode_system(e, t_span[1], y0).raised # "" ->
            {[raised |-> ode_system(e, t_span[1], y0).raised,
              success |-> FALSE, ys |-> <<>>]}

\* lines 163-192: the observables recomputed from the trajectory; t and ys
\* are solution.t and the columns of solution.y.  With no sample solution.t
\* is the empty list, and line 164 multiplies it by a float: a TypeError.
\* Otherwise the times are numpy.float64 values (line 170), probabilities
\* has one row per state and one column per sample, and the traces are
\* float64 arrays.
PostProcess(e, t, ys) ==
    LET n == Len(t)
        time_ms == [k \in 1..n |-> RatMul(t[k], Num(1000))]
        probabilities ==
            [i \in 1..e.num_states |-> [k \in 1..n |-> ys[k][i]]]
        internal_K_trace == [k \in 1..n |-> ys[k][e.num_states + 1]]
        external_K_trace == [k \in 1..n |-> ys[k][e.num_states + 2]]
        voltage_trace ==
            [k \in 1..n |->
                get_value_at_time(e.stimulus, "voltage_mV", time_ms[k],
                                  "float64")]
        nernst_potential_trace ==
            NernstPotentialTrace(internal_K_trace, external_K_trace)
        total_conductance_trace ==
            [k \in 1..n |->
                Dot(e.conductances, [i \in 1..e.num_states |-> ys[k][i]],
                    e.num_states)]
        \* the first call of line 170 that raises ends run; an array of
        \* None minus an array of floats is a TypeError
        raised == IF n = 0 THEN "TypeError"
                  ELSE IF \E k \in 1..n : Raised(voltage_trace[k]) # ""
                    THEN Raised(voltage_trace[
                             CHOOSE k \in 1..n :
                                /\ Raised(voltage_trace[k]) # ""
                                /\ \A j \in 1..(k - 1) :
                                      Raised(voltage_trace[j]) = ""])
                  ELSE IF \E k \in 1..n : voltage_trace[k] = None
                    THEN "TypeError"
                  ELSE ""
        total_current_pA_trace ==
            [k \in 1..n |->
                F64Mul(total_conductance_trace[k],
                       F64Sub(voltage_trace[k], nernst_potential_trace[k]))]
    IN  IF raised # "" THEN [raised |-> raised, result |-> <<>>]
        ELSE [raised |-> "",
              result |->
                [time_ms |-> time_ms,
                 voltage_mV |-> voltage_trace,
                 probabilities |-> probabilities,
                 total_conductance_nS |-> total_conductance_trace,
                 total_current_pA |-> total_current_pA_trace,
                 internal_K_mM |-> internal_K_trace,
                 external_K_mM |-> external_K_trace,
                 nernst_potential_mV |-> nernst_potential_trace,
                 state_map |-> e.state_map]]

\* lines 143-151: the initial state vector
InitialState(e) ==
    LET y0_probs == [i \in 1..e.num_states |-> IF i = 1 THEN One ELSE Zero]
        y0_int_k == DictGet(e.holding_map, "Internal-K",
                            HoldingValue("Internal-K", Num(140), <<>>)).value
        y0_ext_k == DictGet(e.holding_map, "External-K",
                            HoldingValue("External-K", Num(4), <<>>)).value
    IN  y0_probs \o <<y0_int_k, y0_ext_k>>

\* what a call of run records: its arguments, y0, whether solve_ivp
\* returned (solved) and with which success flag, the exception that ended
\* run ("" when none) and the result returned
RunReturn(duration_ms, steps, y0, solved, success, raised, result) ==
    [op |-> "run", duration_ms |-> duration_ms, steps |-> steps,
     y0 |-> y0, solved |-> solved, success |-> success, raised |-> raised,
     result |-> result]

\* SimulationEngine.run(duration_ms, steps): the outcomes of the call.  The
\* post-processing is reached whenever solve_ivp returns; nothing between
\* lines 157 and 192 inspects solution.success or raises an exception of
\* the engine's own.
run(e, duration_ms, steps) ==
    LET t_span_s == <<Zero, RatDiv(duration_ms, Num(1000))>>
        t_eval_s == Linspace(t_span_s[2], steps)
    IN  UNION {UNION {
            IF solution.raised # ""
              THEN {RunReturn(duration_ms, steps, y0, FALSE, FALSE,
                              solution.raised, <<>>)}
            ELSE {RunReturn(duration_ms, steps, y0, TRUE, solution.success,
                            post.raised, post.result) :
                     post \in {PostProcess(e,
                                   SubSeq(t_eval_s, 1, Len(solution.ys)),
                                   solution.ys)}} :
            solution \in solve_ivp(e, t_span_s, y0, t_eval_s)} :
            y0 \in {InitialState(e)}}

\* The engine after a call of _ode_system, of run and of get_value_at_time:
\* none of the three bodies assigns an attribute of self or changes an
\* object that self refers to
SelfAfterOdeSystem(e, t_s, y) == e
SelfAfterRun(e, duration_ms, steps) == e
SelfAfterGetValue(e, variable_name, t_ms) == e

\* ------------------------------------------------------------------------
\* Inputs
\* ------------------------------------------------------------------------
StepValues == {20, 40}
HoldingVoltage == Num(-80)

FluxSteps ==
    {FluxStep(ty, Num(v), Num(s), Num(d)) :
        ty \in FluxTypes, v \in StepValues, s \in 0..MaxStart, d \in 0..MaxDur}

\* the two-state model of the unit tests, with rates a function of V
ModelKv ==
    ChannelModel(<<State("C", Zero), State("O", Rat(12, 10))>>,
                 <<RateFunction("alpha", <<"3", "+", "V">>),
                   RateFunction("beta", <<"2">>)>>,
                 <<Transition("C", "O", "alpha", One),
                   Transition("O", "C", "beta", One)>>)

\* the protocol of the stimulus runs: the flux steps given on voltage_mV
StimulusProtocolOn(steps) ==
    StimulusProtocol("test_step", <<HoldingValue("voltage_mV", HoldingVoltage, steps),
                       HoldingValue("internal_K_mM", Num(140), <<>>),
                       HoldingValue("external_K_mM", Num(5), <<>>)>>)

VariableNames == {"voltage_mV", "Voltage", "internal_K_mM"}

\* ------------------------------------------------------------------------
\* Stimulus evaluation on its own
\* ------------------------------------------------------------------------
InitStimulus ==
    \E steps \in SeqUpTo(FluxSteps, MaxEpochs), fields_required \in BOOLEAN :
        NewEngine(ModelKv, StimulusProtocolOn(steps), fields_required)

GetValueAtTime ==
    \E variable_name \in VariableNames, t \in 0..MaxTime :
        /\ Constructed
        /\ ncalls < MaxCalls
        /\ ncalls' = ncalls + 1
        /\ \E r \in {get_value_at_time(self.stimulus, variable_name,
                                       Num(t), "float")} :
              call' = [op |-> "get_value_at_time",
                       variable_name |-> variable_name,
                       t_ms |-> Num(t),
                       raised |-> Raised(r),
                       result |-> r]
        /\ self' = SelfAfterGetValue(self, variable_name, Num(t))

NextStimulus == GetValueAtTime

SpecStimulus == InitStimulus /\ [][NextStimulus]_vars

\* ------------------------------------------------------------------------
\* The generator matrix: channel models of every small topology
\* ------------------------------------------------------------------------
StateIdSeq == <<"C", "O", "I", "B">>
RateFunctionList ==
    <<RateFunction("alpha", <<"V", "*", "V">>), RateFunction("beta", <<"2">>)>>
\* the kinds of transition: a rate function and a multiplier
TransitionKinds == {<<"alpha", One>>, <<"beta", Rat(1, 2)>>}

StatesOf(n, cond) == [i \in 1..n |-> State(StateIdSeq[i], cond[i])]

TransitionsOn(n) ==
    {Transition(StateIdSeq[f], StateIdSeq[t], kind[1], kind[2]) :
        f \in 1..n, t \in 1..n, kind \in TransitionKinds}

\* the model of n states with the transitions tr
MatrixModel(n, tr) ==
    ChannelModel(StatesOf(n, [i \in 1..n |-> Rat(6, 5)]), RateFunctionList, tr)

\* a protocol: the voltage record under the name volt_name with the flux
\* steps given, the two concentrations under the names k_names, and the two
\* compartment volumes (in units of 1e-12 L) when with_volumes
Protocol(volt_name, steps, k_names, with_volumes) ==
    StimulusProtocol("test_step",
        <<HoldingValue(volt_name, HoldingVoltage, steps),
          HoldingValue(k_names[1], Num(150), <<>>),
          HoldingValue(k_names[2], Num(5), <<>>)>>
        \o (IF with_volumes
              THEN <<HoldingValue("volume_internal_L", One, <<>>),
                     HoldingValue("volume_external_L", Num(1000), <<>>)>>
            ELSE <<>>))

CodeKNames == <<"Internal-K", "External-K">>
SpecKNames == <<"internal_K_mM", "external_K_mM">>
OneStep == <<FluxStep("Step", Num(40), One, One)>>
OneRamp == <<FluxStep("Ramp", Num(40), Zero, Num(2))>>

MatrixProtocols ==
    {Protocol("Voltage", steps, SpecKNames, TRUE) :
        steps \in {OneStep, OneRamp}}

\* times (s) at which the right-hand side is evaluated
RhsTimes == {Rat(t, 1000) : t \in 0..1}

UnitVector(n) == [i \in 1..n |-> IF i = 1 THEN One ELSE Zero]
UniformVector(n) == [i \in 1..n |-> Rat(1, n)]

InitMatrix ==
    \E n \in 1..MaxStates, p \in MatrixProtocols,
       fields_required \in BOOLEAN :
        \E tr \in SeqUpTo(TransitionsOn(n), MaxTransitions) :
            NewEngine(MatrixModel(n, tr), p, fields_required)

OdeSystemMatrix ==
    /\ Constructed
    /\ \E t_s \in RhsTimes,
          P \in {UnitVector(self.num_states),
                 UniformVector(self.num_states)} :
           LET y == P \o <<Num(150), Num(5)>>
           IN  /\ ncalls < MaxCalls
               /\ ncalls' = ncalls + 1
               /\ call' = ode_system(self, t_s, y)
               /\ self' = SelfAfterOdeSystem(self, t_s, y)

NextMatrix == OdeSystemMatrix

SpecMatrix == InitMatrix /\ [][NextMatrix]_vars

\* ------------------------------------------------------------------------
\* Validation of input data on its own: a dictionary of data is handed to
\* one of the two schemas, as the unit tests do (simulation_unittest.py
\* lines 59 and 66); no engine exists yet
\* ------------------------------------------------------------------------
\* transitions as model data may give them: between the n declared states
\* and the undeclared Z_INVALID, by a declared rate function or by the
\* undeclared gamma_INVALID
DataTransitionsOn(n) ==
    {Transition(f, t, id, One) :
        f \in {StateIdSeq[i] : i \in 1..n} \cup {"Z_INVALID"},
        t \in {StateIdSeq[i] : i \in 1..n} \cup {"Z_INVALID"},
        id \in {"alpha", "beta", "gamma_INVALID"}}

\* holding values as protocol data may give them: names may repeat
DataHoldingValues ==
    {HoldingValue(name, One, <<>>) : name \in {"voltage_mV", "internal_K_mM"}}

\* model data of n states: the lists of states and of rate functions may
\* be empty
DataModel(n, funcs, tr) ==
    ChannelModel(StatesOf(n, [i \in 1..n |-> Rat(6, 5)]), funcs, tr)

\* protocol data whose holding_values is a list of holding values, with or
\* without the key protocol_id
ProtocolList(with_id, hvs) ==
    IF with_id
      THEN [protocol_id |-> "test_step",
            holding_values |-> [py_type |-> "list", items |-> hvs]]
    ELSE [holding_values |-> [py_type |-> "list", items |-> hvs]]

\* an entry of the list `epochs` of the unit tests' protocol data
Epoch(variable, start_time_ms, duration_ms, value) ==
    [variable |-> variable, start_time_ms |-> start_time_ms,
     duration_ms |-> duration_ms, value |-> value]
\* the epoch of create_valid_protocol_data and the one that
\* test_protocol_fails_with_invalid_epoch_variable appends
DataEpochs ==
    {Epoch("voltage_mV", Num(100), Num(200), Num(40)),
     Epoch("temperature_C", Num(10), Num(50), Num(37))}

\* create_valid_protocol_data() with the epochs given: holding_values is a
\* dict of name to number (the volumes in units of 1e-12 L)
ProtocolFixture(epochs) ==
    [protocol_id |-> "test_step",
     holding_values |->
         [py_type |-> "dict",
          items |-> [voltage_mV |-> Num(-80), internal_K_mM |-> Num(140),
                     external_K_mM |-> Num(5), volume_internal_L |-> One,
                     volume_external_L |-> Num(1000000)]],
     epochs |-> epochs]

InputData(model, protocol) == [model |-> model, protocol |-> protocol]

InitSchema ==
    /\ \/ \E n \in 0..MaxStates, funcs \in {RateFunctionList, <<>>} :
             \E tr \in SeqUpTo(DataTransitionsOn(n), MaxTransitions) :
                 call = [op |-> "data",
                         data |-> InputData(DataModel(n, funcs, tr),
                                            ProtocolFixture(<<>>))]
       \/ \E hvs \in SeqUpTo(DataHoldingValues, MaxHoldingValues),
             with_id \in BOOLEAN :
             call = [op |-> "data",
                     data |-> InputData(ModelKv, ProtocolList(with_id, hvs))]
       \/ \E epochs \in SeqUpTo(DataEpochs, MaxEpochs) :
             call = [op |-> "data",
                     data |-> InputData(ModelKv, ProtocolFixture(epochs))]
    /\ self = NoEngine
    /\ ncalls = 0

\* ChannelModelSchema(**data), as the unit tests call it on its own
ValidateModel ==
    /\ call.op = "data"
    /\ ncalls < MaxCalls
    /\ ncalls' = ncalls + 1
    /\ call' = model_validate(call.data.model)
    /\ self' = self

\* StimulusProtocolSchema(**data), as the unit tests call it on its own
ValidateProtocol ==
    /\ call.op = "data"
    /\ ncalls < MaxCalls
    /\ ncalls' = ncalls + 1
    /\ \E r \in {protocol_validate(call.data.protocol)} :
          call' = [op |-> "StimulusProtocol",
                   data |-> call.data.protocol,
                   raised |-> IF "raised" \in DOMAIN r THEN r.raised ELSE "",
                   returned |-> r]
    /\ self' = self

NextSchema == ValidateModel \/ ValidateProtocol

SpecSchema == InitSchema /\ [][NextSchema]_vars

\* ------------------------------------------------------------------------
\* The engine as a whole: stimulus queries, right-hand-side evaluations and
\* runs on one engine
\* ------------------------------------------------------------------------
ConductanceValues == {Zero, Rat(6, 5)}

\* a model whose rate equation alpha names k, which is neither V nor exp
ModelUndeclared ==
    ChannelModel(ModelKv.states,
                 <<RateFunction("alpha", <<"k", "*", "V">>),
                   RateFunction("beta", <<"2">>)>>,
                 ModelKv.transitions)

\* a model whose rate equation alpha multiplies the function class exp
ModelFunctionClass ==
    ChannelModel(ModelKv.states,
                 <<RateFunction("alpha", <<"exp", "*", "V">>),
                   RateFunction("beta", <<"2">>)>>,
                 ModelKv.transitions)

\* a model whose list of rate functions gives the id alpha twice
ModelRepeated ==
    ChannelModel(ModelKv.states,
                 <<RateFunction("alpha", <<"3", "+", "V">>),
                   RateFunction("alpha", <<"2">>),
                   RateFunction("beta", <<"2">>)>>,
                 ModelKv.transitions)

RunModels ==
    {ChannelModel(StatesOf(2, cond), ModelKv.rate_functions,
                  ModelKv.transitions) :
        cond \in [1..2 -> ConductanceValues]}
    \cup
    {ChannelModel(StatesOf(1, cond), ModelKv.rate_functions,
                  <<Transition("C", "C", "beta", One)>>) :
        cond \in [1..1 -> ConductanceValues]}
    \cup {ModelUndeclared, ModelRepeated, ModelFunctionClass}

\* holding voltages: the test value and the Nernst potential of the holding
\* concentrations 150 and 5
HoldingVoltages == {Num(-80), NernstPotential(Num(150), Num(5))}

ProtocolWith(volt_name, volt, steps, k_names, with_volumes) ==
    LET p == Protocol(volt_name, steps, k_names, with_volumes)
    IN  StimulusProtocol("test_step",
            [p.holding_values EXCEPT ![1] = HoldingValue(volt_name, volt, steps)])

RunProtocols ==
    {ProtocolWith(volt_name, volt, steps, kv[1], kv[2]) :
        volt_name \in {"Voltage", "voltage_mV"},
        volt \in HoldingVoltages,
        steps \in {<<>>, OneStep},
        kv \in {<<CodeKNames, TRUE>>, <<SpecKNames, TRUE>>,
                <<SpecKNames, FALSE>>}}

\* state vectors handed to the right-hand side: all the probability in one
\* state or spread evenly, with physical and non-physical concentrations
ProbabilityVectors(n) ==
    {[i \in 1..n |-> IF i = k THEN One ELSE Zero] : k \in 1..n}
    \cup {UniformVector(n)}
Concentrations ==
    {<<Num(150), Num(5)>>, <<Num(140), Num(4)>>, <<Num(150), Num(150)>>,
     <<Zero, Num(5)>>}
StateVectors(n) ==
    {P \o K : P \in ProbabilityVectors(n), K \in Concentrations}

Durations == {One, Num(2)}

Init ==
    \E m \in RunModels, p \in RunProtocols, fields_required \in BOOLEAN :
        NewEngine(m, p, fields_required)

OdeSystem ==
    /\ Constructed
    /\ \E t_s \in RhsTimes, y \in StateVectors(self.num_states) :
          /\ ncalls < MaxCalls
          /\ ncalls' = ncalls + 1
          /\ call' = ode_system(self, t_s, y)
          /\ self' = SelfAfterOdeSystem(self, t_s, y)

Run ==
    \E duration_ms \in Durations, steps \in 1..MaxSteps :
        /\ Constructed
        /\ ncalls < MaxCalls
        /\ ncalls' = ncalls + 1
        /\ call' \in run(self, duration_ms, steps)
        /\ self' = SelfAfterRun(self, duration_ms, steps)

Next == GetValueAtTime \/ OdeSystem \/ Run

Spec == Init /\ [][Next]_vars

\* ------------------------------------------------------------------------
\* Properties
\* ------------------------------------------------------------------------
\* the call just made asked for a declared variable
AskedDeclared ==
    /\ call.op = "get_value_at_time"
    /\ call.variable_name \in DOMAIN self.holding_map

AskedHolding == self.holding_map[call.variable_name]

ActiveSteps(steps, t_ms) ==
    {i \in DOMAIN steps :
        /\ RatLe(steps[i].time, t_ms)
        /\ RatLt(t_ms, RatAdd(steps[i].time, steps[i].deltaTime))}

FirstIn(S) == CHOOSE i \in S : \A j \in S : i <= j

\* C1: with a single epoch on the variable, the evaluator returns the epoch's
\* value exactly when startTime <= t < startTime + duration and the holding
\* value otherwise; in particular the epoch's value at t = startTime and the
\* holding value at t = startTime + duration.
C1_HalfOpenInterval ==
    (AskedDeclared /\ Len(AskedHolding.fluxSteps) = 1) =>
        LET epoch == AskedHolding.fluxSteps[1]
        IN  /\ call.raised = ""
            /\ call.result =
                  IF ActiveSteps(AskedHolding.fluxSteps, call.t_ms) # {}
                    THEN epoch.value
                  ELSE AskedHolding.value

\* C2: the evaluator returns the literal value of the first epoch in
\* declaration order whose interval contains t.
C2_FirstMatchWins ==
    (AskedDeclared
       /\ ActiveSteps(AskedHolding.fluxSteps, call.t_ms) # {}) =>
        /\ call.raised = ""
        /\ call.result =
              AskedHolding.fluxSteps[
                  FirstIn(ActiveSteps(AskedHolding.fluxSteps,
                                      call.t_ms))].value

\* C3: when no epoch of a declared variable is active at t, the evaluator
\* returns the variable's holding value, never None and no exception.
C3_HoldingWhenNoEpoch ==
    (AskedDeclared
       /\ ActiveSteps(AskedHolding.fluxSteps, call.t_ms) = {}) =>
        /\ call.raised = ""
        /\ call.result = AskedHolding.value

\* rate * multiplier of a transition at voltage V
TransitionRate(e, trans, V) ==
    ApplyOp("*", CallRate(e.rate_functions[trans.rate_function_id], V),
            trans.multiplier)

\* sum of rate * multiplier over the transitions in S (a set of indices)
RECURSIVE RateSum(_, _, _)
RateSum(e, S, V) ==
    IF S = {} THEN Zero
    ELSE LET k == CHOOSE k \in S : TRUE
         IN  RatAdd(TransitionRate(e, e.model.transitions[k], V),
                    RateSum(e, S \ {k}, V))

\* the transitions whose from-state has index i
From(e, i) ==
    {k \in DOMAIN e.model.transitions :
        e.state_map[e.model.transitions[k].from_state] = i}

ColumnSum(Q, j, n) == SumTo([i \in 0..(n - 1) |-> Q[<<i, j>>]], n - 1)

N == self.num_states
Evaluated == call.op = "_ode_system"
Ran == call.op = "run"
Declared(name) == name \in DOMAIN self.holding_map

\* the evaluation just made got as far as building its matrix
MatrixBuilt == Evaluated /\ "Q" \in DOMAIN call

\* C4: every right-hand-side evaluation builds a matrix Q whose columns each
\* sum to zero and whose entry Q[i][i] is the negated sum of
\* rate * multiplier over all transitions whose from-state is i.
C4_DiagonalAllFrom ==
    Evaluated =>
        /\ MatrixBuilt
        /\ \A j \in 0..(N - 1) : ColumnSum(call.Q, j, N) = Zero
        /\ \A i \in 0..(N - 1) :
              call.Q[<<i, i>>] = RatNeg(RateSum(self, From(self, i), call.V))

\* ------------------------------------------------------------------------
\* Right-hand side and runs
\* ------------------------------------------------------------------------
RECURSIVE SumSeq(_)
SumSeq(seq) ==
    IF Len(seq) = 0 THEN Zero ELSE RatAdd(seq[1], SumSeq(Tail(seq)))

\* the occupancies of the k-th sample of a result
Occupancy(result, k) == [i \in 1..N |-> result.probabilities[i][k]]

\* C5: every right-hand-side evaluation returns a derivative whose
\* probability components sum to zero, and every run returns samples whose
\* occupancy probabilities sum to 1.
C5_ProbabilityConserved ==
    /\ Evaluated =>
          /\ call.raised = ""
          /\ SumSeq(SubSeq(call.dydt, 1, N)) = Zero
    /\ Ran =>
          /\ call.raised = ""
          /\ \A k \in DOMAIN call.result.time_ms :
                SumSeq(Occupancy(call.result, k)) = One

\* C6: every run starts from probability 1 in state 0 and 0 elsewhere, with
\* the concentrations at the protocol's holding values of internal_K_mM and
\* external_K_mM, and the first sample of the result reports these values.
C6_InitialCondition ==
    (Ran /\ Declared("internal_K_mM") /\ Declared("external_K_mM")) =>
        LET Kin0 == self.holding_map["internal_K_mM"].value
            Kout0 == self.holding_map["external_K_mM"].value
        IN  /\ call.y0 = UnitVector(N) \o <<Kin0, Kout0>>
            /\ call.raised = ""
            /\ Occupancy(call.result, 1) = UnitVector(N)
            /\ call.result.internal_K_mM[1] = Kin0
            /\ call.result.external_K_mM[1] = Kout0

AllConductancesZero ==
    Constructed /\ \A i \in 1..N : self.conductances[i] = Zero

\* C7: with every conductance 0, each right-hand-side evaluation returns
\* concentration derivatives equal to 0, and each run returns total
\* conductance 0, total current 0 and the initial concentrations at every
\* sample.
C7_ZeroConductance ==
    AllConductancesZero =>
        /\ Evaluated =>
              /\ call.raised = ""
              /\ call.dydt[N + 1] = Zero
              /\ call.dydt[N + 2] = Zero
        /\ Ran =>
              /\ call.raised = ""
              /\ \A k \in DOMAIN call.result.time_ms :
                    /\ call.result.total_conductance_nS[k] = Zero
                    /\ call.result.total_current_pA[k] = Zero
                    /\ call.result.internal_K_mM[k] = call.y0[N + 1]
                    /\ call.result.external_K_mM[k] = call.y0[N + 2]

\* the protocol holds voltage_mV, without epochs, at the Nernst potential of
\* the concentrations Kin and Kout
HeldAtNernst(Kin, Kout) ==
    /\ Declared("voltage_mV")
    /\ self.holding_map["voltage_mV"].fluxSteps = <<>>
    /\ self.holding_map["voltage_mV"].value = NernstPotential(Kin, Kout)

\* C8: when the protocol holds voltage_mV at the Nernst potential of the
\* initial concentrations and has no epochs, the right-hand side evaluated at
\* those concentrations finds a total current of 0, and a run returns a
\* total current of 0 at every sample and final concentrations equal to the
\* initial ones.
C8_NernstEquilibrium ==
    /\ (Evaluated /\ HeldAtNernst(call.y[N + 1], call.y[N + 2])) =>
          /\ "total_current_pA" \in DOMAIN call
          /\ call.total_current_pA = Zero
    /\ (Ran /\ HeldAtNernst(call.y0[N + 1], call.y0[N + 2])) =>
          /\ call.raised = ""
          /\ \A k \in DOMAIN call.result.time_ms :
                call.result.total_current_pA[k] = Zero
          /\ call.result.internal_K_mM[Len(call.result.time_ms)]
                = call.y0[N + 1]
          /\ call.result.external_K_mM[Len(call.result.time_ms)]
                = call.y0[N + 2]

PositiveVolumes ==
    /\ Declared("volume_internal_L")
    /\ Declared("volume_external_L")
    /\ RatLt(Zero, self.holding_map["volume_internal_L"].value)
    /\ RatLt(Zero, self.holding_map["volume_external_L"].value)

\* C9: with positive compartment volumes, each right-hand-side evaluation
\* returns dKin/dt < 0 and dKout/dt > 0 for a positive total current, the
\* opposite signs for a negative one, and
\* dKin/dt * volumeInternal = -(dKout/dt * volumeExternal).
C9_FluxDirection ==
    (Evaluated /\ PositiveVolumes) =>
        /\ call.raised = ""
        /\ RatLt(Zero, call.total_current_pA) =>
              RatLt(call.dydt[N + 1], Zero) /\ RatLt(Zero, call.dydt[N + 2])
        /\ RatLt(call.total_current_pA, Zero) =>
              RatLt(Zero, call.dydt[N + 1]) /\ RatLt(call.dydt[N + 2], Zero)
        /\ RatMul(call.dydt[N + 1], self.holding_map["volume_internal_L"].value)
              = RatNeg(RatMul(call.dydt[N + 2],
                              self.holding_map["volume_external_L"].value))

\* ------------------------------------------------------------------------
\* Failure reporting
\* ------------------------------------------------------------------------
\* the numbers of samples of the traces of a result record
TraceLengths(result) ==
    {Len(result.time_ms), Len(result.voltage_mV),
     Len(result.total_conductance_nS), Len(result.total_current_pA),
     Len(result.internal_K_mM), Len(result.external_K_mM),
     Len(result.nernst_potential_mV)}
    \cup {Len(result.probabilities[i]) : i \in DOMAIN result.probabilities}

\* C11: when the integrator does not complete the requested time span, run
\* reports an IntegrationFailure to its caller, and a result record that run
\* returns never has traces of fewer than `steps` samples.
C11_IntegrationFailure ==
    Ran =>
        /\ ~(call.solved /\ call.success) => call.raised = "IntegrationFailure"
        /\ call.raised = "" => TraceLengths(call.result) = {call.steps}

\* the identifiers of an equation that are neither V nor exp
Undeclared(equation) ==
    {equation[i] : i \in DOMAIN equation}
        \ (Numerals \cup Operators \cup {"V", "exp"})

\* the symbols a compiled rate function refers to besides its argument
FreeSymbols(f) ==
    {n.name : n \in {nd \in {f.body} \cup {f.body.args[i] :
                                               i \in DOMAIN f.body.args} :
                        nd.kind = "sym"}}

\* C12: no engine exists for a model with a rate equation that contains an
\* identifier other than V and exp, no engine's cache holds a function of an
\* undeclared symbol, and no right-hand-side evaluation ends inside the loop
\* that builds Q, on a rate that is an expression of such a symbol.
C12_UndefinedSymbol ==
    Constructed =>
        /\ \A i \in DOMAIN self.model.rate_functions :
              Undeclared(self.model.rate_functions[i].equation) = {}
        /\ \A id \in DOMAIN self.rate_functions :
              FreeSymbols(self.rate_functions[id]) = {}
        /\ Evaluated =>
              ~("Q" \in DOMAIN call /\ "d_probabilities_dt" \notin DOMAIN call)

\* the volume (in units of 1e-12 L) that the claim gives an engine: the
\* protocol's value when the protocol declares the field, else the default
ClaimedVolume(name, default) ==
    IF Declared(name) THEN self.holding_map[name].value ELSE default

\* C14: constructing an engine succeeds, the compartment volumes of the
\* engine are positive numbers, the protocol's volume_internal_L and
\* volume_external_L when present and 1e-12 L and 1e-6 L when absent, and a
\* run on a protocol without volume fields completes.
C14_Volumes ==
    /\ call.op = "__init__" => call.raised = ""
    /\ Constructed =>
          /\ self.volume_internal_L.py_type = "float"
          /\ self.volume_external_L.py_type = "float"
          /\ self.volume_internal_L.value
                = ClaimedVolume("volume_internal_L", One)
          /\ self.volume_external_L.value
                = ClaimedVolume("volume_external_L", Num(1000000))
          /\ RatLt(Zero, self.volume_internal_L.value)
          /\ RatLt(Zero, self.volume_external_L.value)
          /\ (Ran /\ ~Declared("volume_internal_L")
                  /\ ~Declared("volume_external_L")) => call.raised = ""

\* ------------------------------------------------------------------------
\* Referential integrity
\* ------------------------------------------------------------------------
Validated == call.op = "ChannelModel"

StateIds(data) == {data.states[i].id : i \in DOMAIN data.states}
FunctionIds(data) ==
    {data.rate_functions[i].id : i \in DOMAIN data.rate_functions}

\* the transitions of the data that name an undeclared state
DanglingState(data) ==
    {k \in DOMAIN data.transitions :
        \/ data.transitions[k].from_state \notin StateIds(data)
        \/ data.transitions[k].to_state \notin StateIds(data)}
\* those that name an undeclared rate function
DanglingFunction(data) ==
    {k \in DOMAIN data.transitions :
        data.transitions[k].rate_function_id \notin FunctionIds(data)}

Says(errors, text) == \E i \in DOMAIN errors : errors[i].text = text

\* C15: constructing a channel model raises a validation error that says
\* 'is not a defined state id' when a transition names an undeclared state
\* and 'is not a defined function id' when one names an undeclared rate
\* function, and a model whose transitions name only declared states and
\* functions is accepted.
C15_ReferentialIntegrity ==
    Validated =>
        /\ DanglingState(call.data) # {} =>
              /\ call.raised = "ValidationError"
              /\ Says(call.errors, "is not a defined state id")
        /\ DanglingFunction(call.data) # {} =>
              /\ call.raised = "ValidationError"
              /\ Says(call.errors, "is not a defined function id")
        /\ (DanglingState(call.data) = {}
              /\ DanglingFunction(call.data) = {}) => call.raised = ""

\* ------------------------------------------------------------------------
\* Right-hand side against post-processing
\* ------------------------------------------------------------------------
\* C16: the voltage that a right-hand-side evaluation at time t uses is the
\* stimulus evaluator's value of voltage_mV at t * 1000 ms, the value that
\* the post-processing reports in the voltage trace for that time.
C16_SameVoltage ==
    (Evaluated /\ Declared("voltage_mV")) =>
        /\ "V" \in DOMAIN call
        /\ call.V = get_value_at_time(self.stimulus, "voltage_mV",
                                      RatMul(call.t_s, Num(1000)), "float")

\* the guard of the Nernst potential on the concentrations of the call
Kin == call.y[N + 1]
Kout == call.y[N + 2]
NonPositive == RatLe(Kin, Zero) \/ RatLe(Kout, Zero)

\* C17: every right-hand-side evaluation finds a Nernst potential, which is
\* 0 exactly when Kin <= 0 or Kout <= 0, and the post-processing of lines
\* 174-176 finds the same potential for the same pair.
C17_ZeroExactlyAtGuard ==
    Evaluated =>
        /\ "nernst_potential" \in DOMAIN call
        /\ call.nernst_potential = Zero <=> NonPositive
        /\ NernstPotentialTrace(<<Kin>>, <<Kout>>)
              = <<call.nernst_potential>>

\* ------------------------------------------------------------------------
\* Off-diagonal entries of the generator matrix
\* ------------------------------------------------------------------------
\* the transitions from the state of index i to the state of index j
FromTo(e, i, j) ==
    {k \in From(e, i) : e.state_map[e.model.transitions[k].to_state] = j}

\* C18: every right-hand-side evaluation builds a matrix in which, for every
\* pair of distinct states (i, j), the entry Q[j][i] is the sum of
\* rateFn(V) * multiplier over the transitions from i to j, 0 when there is
\* none; this holds for a call that follows other calls as for a first
\* call, so nothing of an earlier matrix remains.
C18_OffDiagonal ==
    Evaluated =>
        /\ MatrixBuilt
        /\ \A i \in 0..(N - 1), j \in 0..(N - 1) :
              i # j => call.Q[<<j, i>>]
                          = RateSum(self, FromTo(self, i, j), call.V)

\* ------------------------------------------------------------------------
\* The cache of compiled rate functions
\* ------------------------------------------------------------------------
\* the first rate function of the list with the id given
FirstWithId(funcs, id) ==
    funcs[CHOOSE i \in DOMAIN funcs :
              /\ funcs[i].id = id
              /\ \A j \in 1..(i - 1) : funcs[j].id # id]

\* C19: in every state of an engine, before and after any right-hand-side
\* evaluation or run, the cache holds one callable for each id of the
\* model's rate functions and for no other id, the callable of an id is the
\* compilation of the first equation listed under that id (a repeated id
\* is not compiled again), and every rate-function id that a transition
\* names is in the cache.
C19_CacheOnce ==
    Constructed =>
        /\ DOMAIN self.rate_functions = FunctionIds(self.model)
        /\ \A id \in DOMAIN self.rate_functions :
              self.rate_functions[id]
                  = lambdify(parse_expr(
                        FirstWithId(self.model.rate_functions, id).equation))
        /\ \A k \in DOMAIN self.model.transitions :
              self.model.transitions[k].rate_function_id
                  \in DOMAIN self.rate_functions

\* an engine for a model that lists an id twice with different equations,
\* after a right-hand-side evaluation and a run
C19_Witness ==
    /\ Constructed
    /\ self.model = ModelRepeated
    /\ Ran
    /\ ncalls >= 2

====
